---- MODULE Spec2Model ----
(***************************************************************************)
(* Signaling for aiortc's videostream-cli: the message codec and the four  *)
(* signaling carriers of aiortc/contrib/signaling.py, the request signer   *)
(* (getSignedURL) and the negotiation loop run() with the shutdown         *)
(* sequence of examples/videostream-cli/cli.py.                            *)
(*                                                                         *)
(* Python values are modelled as follows.  A string that the code only     *)
(* copies or compares is a TLA+ string.  A string that the code cuts or    *)
(* joins (an SDP candidate line) is a sequence of tokens, where " " and    *)
(* ":" are tokens of their own.  An optional value is None (<<>>) or       *)
(* Some(v) (<<v>>).  A call's outcome is Return(v) or Raise(exception).    *)
(***************************************************************************)
EXTENDS Integers, Sequences, FiniteSets, TLC

VARIABLES
    codecPc,          \* codec harness: "input" | "encoded" | "decoded"
    codecObj,         \* the object handed to object_to_string
    codecStr,         \* the string on the wire
    codecRes,         \* the outcome of object_from_string
    pc,               \* __main__ and run(): the await the program is suspended in
    role,             \* args.role
    environ,          \* os.environ, the credential variables
    signaling,        \* the signaling object
    ret,              \* the outcome of the signaling call in progress, once it is over
    inboundSender,    \* the sender id that came with the frame last received
    connectionState,  \* pc.connectionState
    obj,              \* run(): obj
    remoteClientId,   \* run(): remoteClientId
    calls,            \* the calls made on the engine, the recorder and the transport
    routing,          \* the routing arguments of the send() calls of run()
    received,         \* the number of frames delivered to receive()
    ending,           \* how the try block ended, or what was printed before sys.exit()
    cleanupError,     \* the exception that ended the finally block, if any
    drvCall,          \* transport harness: the method in progress
    drvLog,           \* transport harness: the calls made, with their outcomes
    signerPc,         \* signer harness: "input" | "signed"
    signerCopy,       \* which copy of getSignedURL is called
    signerTime,       \* what datetime.utcnow() returns to it
    request_url       \* the outcome of getSignedURL

codecVars == <<codecPc, codecObj, codecStr, codecRes>>
mainVars == <<pc, role, environ, connectionState, obj, remoteClientId, calls, routing,
              ending, cleanupError>>
sigVars == <<signaling, ret, inboundSender, received>>
drvVars == <<drvCall, drvLog>>
signerVars == <<signerPc, signerCopy, signerTime, request_url>>

vars == <<codecPc, codecObj, codecStr, codecRes, pc, role, environ, signaling, ret,
          inboundSender, connectionState, obj, remoteClientId, calls, routing,
          received, ending, cleanupError, drvCall, drvLog, signerPc, signerCopy,
          signerTime, request_url>>

\* ------------------------------------------------------------------ bounds

\* Integers of a message (component, port, priority, label) range over 0..MaxNum.
MaxNum == 2

\* The peer delivers at most MaxInbound frames to receive().
MaxInbound == 2

\* The transport harness makes at most MaxCalls calls.
MaxCalls == 3

\* ------------------------------------------------------------ Python values

None == <<>>
Some(v) == <<v>>

Return(v) == [kind |-> "return", value |-> v]
Raise(e) == [kind |-> "raise", exc |-> e]

\* The sentinel BYE = object() and Python's None as results of the codec.
BYE == [cls |-> "BYE"]
PyNone == [cls |-> "NoneType"]

RTCSessionDescription(sdp, type) ==
    [cls |-> "RTCSessionDescription", sdp |-> sdp, type |-> type]

RTCIceCandidate(component, foundation, ip, port, priority, protocol, type) ==
    [cls |-> "RTCIceCandidate", component |-> component, foundation |-> foundation,
     ip |-> ip, port |-> port, priority |-> priority, protocol |-> protocol,
     type |-> type, relatedAddress |-> None, relatedPort |-> None,
     sdpMid |-> None, sdpMLineIndex |-> None, tcpType |-> None]

\* str(n) and int(s) for the decimal numerals of one digit.
Decimal == <<"0", "1", "2", "3", "4", "5", "6", "7", "8", "9">>
IsNumeral(s) == \E i \in 1..Len(Decimal) : Decimal[i] = s
str(n) == Decimal[n + 1]
int(s) == (CHOOSE i \in 1..Len(Decimal) : Decimal[i] = s) - 1

\* " ".join(words): words is a sequence of token sequences.
RECURSIVE JoinWords(_)
JoinWords(words) ==
    IF words = <<>> THEN <<>>
    ELSE IF Len(words) = 1 THEN words[1]
    ELSE words[1] \o <<" ">> \o JoinWords(Tail(words))

\* s.split(): the maximal runs of tokens between " " tokens, empty runs dropped.
RECURSIVE SplitWords(_, _)
SplitWords(s, cur) ==
    IF s = <<>> THEN (IF cur = <<>> THEN <<>> ELSE <<cur>>)
    ELSE IF Head(s) = " "
         THEN (IF cur = <<>> THEN <<>> ELSE <<cur>>) \o SplitWords(Tail(s), <<>>)
         ELSE SplitWords(Tail(s), Append(cur, Head(s)))
split(s) == SplitWords(s, <<>>)

\* s.split(sep, 1): at most one cut, at the first sep.
RECURSIVE FirstIndex(_, _, _)
FirstIndex(s, sep, i) ==
    IF i > Len(s) THEN 0
    ELSE IF s[i] = sep THEN i
    ELSE FirstIndex(s, sep, i + 1)
\* every cut: s.split(sep), the pieces between all the sep tokens
RECURSIVE SplitAll(_, _, _)
SplitAll(s, sep, cur) ==
    IF s = <<>> THEN <<cur>>
    ELSE IF Head(s) = sep THEN <<cur>> \o SplitAll(Tail(s), sep, <<>>)
    ELSE SplitAll(Tail(s), sep, Append(cur, Head(s)))
split_sep_all(s, sep) == SplitAll(s, sep, <<>>)
split_sep_1(s, sep) ==
    LET i == FirstIndex(s, sep, 1) IN
    IF i = 0 THEN <<s>>
    ELSE <<SubSeq(s, 1, i - 1), SubSeq(s, i + 1, Len(s))>>

\* ------------------------------------------------- aiortc.sdp (candidate line)

\* candidate_to_sdp: "<foundation> <component> <protocol> <priority> <ip> <port>
\* typ <type>" and then raddr, rport, tcptype for the fields that are set.
candidate_to_sdp(candidate) ==
    JoinWords(
        <<candidate.foundation, <<str(candidate.component)>>, candidate.protocol,
          <<str(candidate.priority)>>, candidate.ip, <<str(candidate.port)>>,
          <<"typ">>, candidate.type>>
        \o (IF candidate.relatedAddress # None
            THEN <<<<"raddr">>, candidate.relatedAddress[1]>> ELSE <<>>)
        \o (IF candidate.relatedPort # None
            THEN <<<<"rport">>, <<str(candidate.relatedPort[1])>>>> ELSE <<>>)
        \o (IF candidate.tcpType # None
            THEN <<<<"tcptype">>, candidate.tcpType[1]>> ELSE <<>>))

\* The optional attributes of a candidate line: bits[i], bits[i + 1] for
\* i in range(8, len(bits) - 1, 2), zero based.
RECURSIVE CandidateAttrs(_, _, _)
CandidateAttrs(bits, i, candidate) ==
    IF i + 1 > Len(bits) THEN Return(candidate)
    ELSE IF bits[i] = <<"raddr">>
         THEN CandidateAttrs(bits, i + 2,
                  [candidate EXCEPT !.relatedAddress = Some(bits[i + 1])])
    ELSE IF bits[i] = <<"rport">>
         THEN IF Len(bits[i + 1]) = 1 /\ IsNumeral(bits[i + 1][1])
              THEN CandidateAttrs(bits, i + 2,
                       [candidate EXCEPT !.relatedPort = Some(int(bits[i + 1][1]))])
              ELSE Raise("ValueError")
    ELSE IF bits[i] = <<"tcptype">>
         THEN CandidateAttrs(bits, i + 2,
                  [candidate EXCEPT !.tcpType = Some(bits[i + 1])])
    ELSE CandidateAttrs(bits, i + 2, candidate)

IsInt(word) == Len(word) = 1 /\ IsNumeral(word[1])

candidate_from_sdp(sdp) ==
    LET bits == split(sdp) IN
    IF Len(bits) < 8 THEN Raise("AssertionError")
    ELSE IF ~(IsInt(bits[2]) /\ IsInt(bits[4]) /\ IsInt(bits[6])) THEN Raise("ValueError")
    ELSE CandidateAttrs(bits, 9,
             RTCIceCandidate(int(bits[2][1]), bits[1], bits[5], int(bits[6][1]),
                             int(bits[4][1]), bits[3], bits[8]))

\* -------------------------------------------------------------------- json

\* A string on the wire: the text of a JSON object, given by its members in the
\* order written, or a text that is no JSON document.
JsonText(pairs) == [json |-> "object", pairs |-> pairs]
NotJson(raw) == [json |-> "malformed", raw |-> raw]
NoStr == [json |-> "none"]

\* The keys the codec writes, in the order sort_keys=True gives them.
JsonKeyOrder == <<"candidate", "id", "label", "sdp", "type">>

\* json.dumps(message, sort_keys=True): the members in ascending key order.
RECURSIVE DumpKeys(_, _)
DumpKeys(message, keys) ==
    IF keys = <<>> THEN <<>>
    ELSE (IF Head(keys) \in DOMAIN message
          THEN <<<<Head(keys), message[Head(keys)]>>>> ELSE <<>>)
         \o DumpKeys(message, Tail(keys))
json_dumps(message) == JsonText(DumpKeys(message, JsonKeyOrder))

\* json.loads(s): a dict with the last value of each key; JSONDecodeError for a
\* text that is no JSON document.
json_loads(s) ==
    IF s.json # "object" THEN Raise("JSONDecodeError")
    ELSE LET pairs == s.pairs
             keys == {pairs[i][1] : i \in 1..Len(pairs)}
             last(k) == CHOOSE i \in 1..Len(pairs) :
                            /\ pairs[i][1] = k
                            /\ \A j \in (i + 1)..Len(pairs) : pairs[j][1] # k
         IN Return([k \in keys |-> pairs[last(k)][2]])

\* ------------------------------------------------------------- the codec

\* message["candidate"].split(":", 1)[1]
AfterColonAll(s) ==
    LET parts == split_sep_all(s, ":") IN
    IF Len(parts) < 2 THEN Raise("IndexError") ELSE Return(parts[2])
AfterColon(s) ==
    LET parts == split_sep_1(s, ":") IN
    IF Len(parts) < 2 THEN Raise("IndexError") ELSE Return(parts[2])

\* The candidate branch of object_from_string.
candidate_from_message(message) ==
    LET line == AfterColon(message["candidate"]) IN
    IF line.kind = "raise" THEN line
    ELSE LET c == candidate_from_sdp(line.value) IN
         IF c.kind = "raise" THEN c
         ELSE IF "id" \notin DOMAIN message \/ "label" \notin DOMAIN message
              THEN Raise("KeyError")
              ELSE Return([c.value EXCEPT !.sdpMid = message["id"],
                                          !.sdpMLineIndex = message["label"]])

object_from_string(message_str) ==
    LET j == json_loads(message_str) IN
    IF j.kind = "raise" THEN j
    ELSE LET message == j.value IN
         IF "type" \notin DOMAIN message THEN Raise("KeyError")
         ELSE IF message["type"] \in {"answer", "offer"}
              THEN IF DOMAIN message = {"sdp", "type"}
                   THEN Return(RTCSessionDescription(message["sdp"], message["type"]))
                   ELSE Raise("TypeError")
         ELSE IF message["type"] = "candidate" /\ "candidate" \notin DOMAIN message
              THEN Raise("KeyError")
         ELSE IF message["type"] = "candidate" /\ message["candidate"] # <<>>
              THEN candidate_from_message(message)
         ELSE IF message["type"] = "bye" THEN Return(BYE)
         ELSE Return(PyNone)

object_to_string(descr) ==
    IF descr.cls = "RTCSessionDescription"
    THEN Return(json_dumps([sdp |-> descr.sdp, type |-> descr.type]))
    ELSE IF descr.cls = "RTCIceCandidate"
    THEN Return(json_dumps([candidate |-> <<"candidate", ":">> \o candidate_to_sdp(descr),
                            id |-> descr.sdpMid,
                            label |-> descr.sdpMLineIndex,
                            type |-> "candidate"]))
    ELSE IF descr = BYE THEN Return(json_dumps([type |-> "bye"]))
    ELSE Raise("AssertionError")

\* ------------------------------------------------------ the request signer

\* os.environ: the three credential variables, each None or Some(text).  The
\* access key is the pair of its four-letter prefix and the rest.
Env(access_key, secret_key, token) ==
    [AWS_ACCESS_KEY_ID |-> access_key, AWS_SECRET_ACCESS_KEY |-> secret_key,
     AWS_SESSION_TOKEN |-> token]

startswith(s, prefix) == s # <<>> /\ s[1] = prefix

\* sys.exit() after print(message): SystemExit, with what was printed.
SystemExit(message) == [kind |-> "raise", exc |-> "SystemExit", printed |-> message]

\* The two credential checks of getSignedURL, the same in its three copies:
\* None when both pass, else the SystemExit raised.
NoSecretCheck(env) ==
    LET access_key == env.AWS_ACCESS_KEY_ID
        token == env.AWS_SESSION_TOKEN
    IN IF access_key = None
       THEN Some(SystemExit("No access key is available."))
       ELSE IF startswith(access_key[1], "ASIA") /\ token = None
       THEN Some(SystemExit("Detected temporary credentials. You must specify a token."))
       ELSE None
CredentialCheck(env) ==
    LET access_key == env.AWS_ACCESS_KEY_ID
        secret_key == env.AWS_SECRET_ACCESS_KEY
        token == env.AWS_SESSION_TOKEN
    IN IF access_key = None \/ secret_key = None
       THEN Some(SystemExit("No access key is available."))
       ELSE IF startswith(access_key[1], "ASIA") /\ token = None
       THEN Some(SystemExit("Detected temporary credentials. You must specify a token."))
       ELSE None

\* urllib.parse.quote(string, safe="-_.~"): letters, digits and the safe
\* characters stay, every other character becomes its %XX escape.  A text is a
\* sequence of tokens: a run of unreserved characters, or one reserved character.
PercentEncoding ==
    [c \in {"=", "/", "+", ":"} |->
        IF c = "=" THEN "%3D" ELSE IF c = "/" THEN "%2F"
        ELSE IF c = "+" THEN "%2B" ELSE "%3A"]
quote(string, safe) ==
    [i \in 1..Len(string) |->
        IF string[i] \in DOMAIN PercentEncoding /\ string[i] \notin safe
        THEN PercentEncoding[string[i]] ELSE string[i]]

\* string.replace(old, new), for old a single character.
replace(string, old, new) ==
    [i \in 1..Len(string) |-> IF string[i] = old THEN new ELSE string[i]]

\* hashlib.sha256(data).hexdigest() and hmac.new(key, msg, sha256): the digest
\* stands for what was hashed.
sha256(data) == [sha256 |-> data]
sign(key, msg) == [hmac |-> key, msg |-> msg]
getSignatureKey(key, dateStamp, regionName, serviceName) ==
    LET kDate == sign(<<"AWS4", key>>, dateStamp)
        kRegion == sign(kDate, regionName)
        kService == sign(kRegion, serviceName)
    IN sign(kService, "aws4_request")

\* datetime.utcnow(), as strftime formats it for amz_date and for datestamp.
utcnow(date, time) == [amz_date |-> <<date, "T", time, "Z">>, datestamp |-> date]

\* The time of the runs that do not vary it.
Now == utcnow("20230809", "101500")

\* The three copies of getSignedURL.
Copies == {"cli.py", "signaling.py", "generatepresignedurl.py"}

ChannelARN ==
    <<"arn", ":", "aws", ":", "kinesisvideo", ":", "eu-west-2", ":", "704753930477",
      ":", "channel", "/", "my_test_channel", "/", "1691592101264">>

\* The query string with the security token appended after the signed headers.
querystring_token_last(copy, access_key, token, t, credential_scope) ==
    <<"X-Amz-Algorithm", "=", "AWS4-HMAC-SHA256">>
    \o (IF copy = "cli.py"
        THEN <<"&", "X-Amz-ChannelARN", "=">> \o quote(ChannelARN, {"-", "_", ".", "~"})
        ELSE <<>>)
    \o <<"&", "X-Amz-Credential", "=">>
    \o quote(access_key \o <<"/">> \o credential_scope, {"-", "_", ".", "~"})
    \o <<"&", "X-Amz-Date", "=">> \o t.amz_date
    \o <<"&", "X-Amz-Expires", "=", "300">>
    \o <<"&", "X-Amz-SignedHeaders", "=", "host">>
    \o (IF startswith(access_key, "ASIA")
        THEN <<"&", "X-Amz-Security-Token", "=">>
             \o replace(quote(token[1], {"-", "_", ".", "~"}), "=", "%253D")
        ELSE <<>>)
    \o (IF copy = "cli.py" THEN <<>>
        ELSE <<"&", "configuration-name", "=", "My_Network_Analyzer_Config">>)

\* The query string with the credential appended before the channel ARN.
querystring_credential_first(copy, access_key, token, t, credential_scope) ==
    <<"X-Amz-Algorithm", "=", "AWS4-HMAC-SHA256">>
    \o <<"&", "X-Amz-Credential", "=">>
    \o quote(access_key \o <<"/">> \o credential_scope, {"-", "_", ".", "~"})
    \o (IF copy = "cli.py"
        THEN <<"&", "X-Amz-ChannelARN", "=">> \o quote(ChannelARN, {"-", "_", ".", "~"})
        ELSE <<>>)
    \o <<"&", "X-Amz-Date", "=">> \o t.amz_date
    \o <<"&", "X-Amz-Expires", "=", "300">>
    \o (IF startswith(access_key, "ASIA")
        THEN <<"&", "X-Amz-Security-Token", "=">>
             \o replace(quote(token[1], {"-", "_", ".", "~"}), "=", "%253D")
        ELSE <<>>)
    \o <<"&", "X-Amz-SignedHeaders", "=", "host">>
    \o (IF copy = "cli.py" THEN <<>>
        ELSE <<"&", "configuration-name", "=", "My_Network_Analyzer_Config">>)

\* Step 5 of getSignedURL: the canonical query string, built by appending
\* "&<key>=<value>" in the order of the statements.  cli.py has the channel
\* ARN, the other two copies have configuration-name.
canonical_querystring(copy, access_key, token, t, credential_scope) ==
    <<"X-Amz-Algorithm", "=", "AWS4-HMAC-SHA256">>
    \o (IF copy = "cli.py"
        THEN <<"&", "X-Amz-ChannelARN", "=">> \o quote(ChannelARN, {"-", "_", ".", "~"})
        ELSE <<>>)
    \o <<"&", "X-Amz-Credential", "=">>
    \o quote(access_key \o <<"/">> \o credential_scope, {"-", "_", ".", "~"})
    \o <<"&", "X-Amz-Date", "=">> \o t.amz_date
    \o <<"&", "X-Amz-Expires", "=", "300">>
    \o (IF startswith(access_key, "ASIA")
        THEN <<"&", "X-Amz-Security-Token", "=">>
             \o replace(quote(token[1], {"-", "_", ".", "~"}), "=", "%253D")
        ELSE <<>>)
    \o <<"&", "X-Amz-SignedHeaders", "=", "host">>
    \o (IF copy = "cli.py" THEN <<>>
        ELSE <<"&", "configuration-name", "=", "My_Network_Analyzer_Config">>)

\* A URL that is no result of getSignedURL.
PlainURL(text) == [plain |-> text]

\* getSignedURL(method, service, region, host, endpoint) of the given copy, with
\* os.environ and the clock as it finds them: SystemExit from the credential
\* checks, or the request URL, which is endpoint + canonical_uri + "?" + the
\* canonical query string + "&X-Amz-Signature=" + signature.
getSignedURL(copy, env, t, method, service, region, host, endpoint) ==
    LET failed == CredentialCheck(env)
        canonical_uri == IF copy = "cli.py" THEN "/" ELSE "/start-network-analyzer-stream"
        canonical_headers == <<"host:", host, "\n">>
        signed_headers == "host"
        algorithm == "AWS4-HMAC-SHA256"
        credential_scope == <<t.datestamp, "/", region, "/", service, "/", "aws4_request">>
        access_key == env.AWS_ACCESS_KEY_ID[1]
        secret_key == env.AWS_SECRET_ACCESS_KEY[1]
        token == env.AWS_SESSION_TOKEN
        querystring == canonical_querystring(copy, access_key, token, t, credential_scope)
        payload_hash == sha256("")
        canonical_request ==
            [method |-> method, canonical_uri |-> canonical_uri,
             canonical_querystring |-> querystring,
             canonical_headers |-> canonical_headers,
             signed_headers |-> signed_headers, payload_hash |-> payload_hash]
        string_to_sign ==
            [algorithm |-> algorithm, amz_date |-> t.amz_date,
             credential_scope |-> credential_scope,
             canonical_request |-> sha256(canonical_request)]
        signing_key == getSignatureKey(secret_key, t.datestamp, region, service)
        signature == sign(signing_key, string_to_sign)
    IN IF failed # None THEN failed[1]
       ELSE Return([endpoint |-> endpoint, canonical_uri |-> canonical_uri,
                    canonical_querystring |->
                        querystring \o <<"&", "X-Amz-Signature", "=">>,
                    signature |-> signature])

\* ------------------------------------------------------------ the carriers

Carriers == {"copy-and-paste", "tcp-socket", "unix-socket", "websocket"}
StreamCarriers == {"tcp-socket", "unix-socket"}

\* A signaling object as create_signaling() makes it.  reader, writer, server
\* and read_transport say whether the field is set (not None); websocket is
\* "None", or the state of the socket it holds.  await says where a call of the
\* object is suspended and pending holds the message of a suspended send().
\* The rest is what the object has done to the outside: the frames written to
\* the peer, the resources released, the listeners started, the outbound
\* connections opened and the websocket connections attempted.  host is
\* self._host (the --signaling-host default until __main__ sets it), signed the
\* URLs connect() got from getSignedURL and opened the URLs it gave to
\* websocket.create_connection.
NewSignaling(cls, env) ==
    [cls |-> cls, environ |-> env,
     reader |-> FALSE, writer |-> FALSE, server |-> FALSE,
     read_transport |-> FALSE, websocket |-> "None",
     await |-> "idle", pending |-> PyNone,
     wire |-> <<>>, released |-> {}, listens |-> 0, dials |-> 0, opens |-> 0,
     host |-> PlainURL("127.0.0.1"), signed |-> <<>>, opened |-> <<>>]

\* What a call has done: the object after it, whether the call is over, and
\* its outcome when it is.
Over(sig, out) == [sig |-> sig, over |-> TRUE, out |-> out]
Suspended(sig, at) == [sig |-> [sig EXCEPT !.await = at], over |-> FALSE, out |-> Return(PyNone)]

\* One frame on the wire: the encoded message and the newline after it.
Frame(text) == [text |-> text, end |-> "\n"]
WriteWithoutNewline(sig, text) ==
    [sig EXCEPT !.wire = Append(@, [text |-> text, end |-> ""])]
Write(sig, text) == [sig EXCEPT !.wire = Append(@, Frame(text))]

\* send(descr), from the call to its first suspension.
\*   copy-and-paste: write the line.
\*   tcp/unix: _connect(True) returns at once when a writer exists, else it
\*     starts a listener and waits for a peer; then the line is written.
\*   websocket: encode, then await websocket.send().
send(sig, descr) ==
    LET data == object_to_string(descr) IN
    IF sig.cls = "copy-and-paste"
    THEN IF data.kind = "raise" THEN Over(sig, data)
         ELSE Over(Write(sig, data.value), Return(PyNone))
    ELSE IF sig.cls \in StreamCarriers
    THEN IF sig.writer
         THEN IF data.kind = "raise" THEN Over(sig, data)
              ELSE Over(Write(sig, data.value), Return(PyNone))
         ELSE Suspended([sig EXCEPT !.pending = descr, !.listens = @ + 1],
                        "start_server")
    ELSE IF data.kind = "raise" THEN Over(sig, data)
         ELSE IF sig.websocket = "None" THEN Over(sig, Raise("AttributeError"))
         ELSE Suspended([sig EXCEPT !.pending = descr], "websocket.send")

\* close() of the four carriers.  None of them suspends: the send() inside finds
\* a writer (stream carriers) or fails before its await (websocket).
closeKeepsServer(sig) ==
    IF sig.cls = "copy-and-paste"
    THEN IF sig.reader
         THEN LET sent == send(sig, BYE) IN
              IF ~sig.read_transport THEN Over(sent.sig, Raise("AttributeError"))
              ELSE Over([sent.sig EXCEPT !.released = @ \cup {"read_transport"},
                                         !.reader = FALSE], Return(PyNone))
         ELSE Over(sig, Return(PyNone))
    ELSE IF sig.cls \in StreamCarriers
    THEN IF sig.writer
         THEN Over([send(sig, BYE).sig EXCEPT !.released = @ \cup {"writer"},
                                             !.reader = FALSE, !.writer = FALSE],
                   Return(PyNone))
         ELSE Over(sig, Return(PyNone))
    ELSE IF sig.websocket = "open"
         THEN LET sent == send(sig, PyNone) IN
              IF sent.over /\ sent.out.kind = "raise" THEN sent
              ELSE Suspended(sent.sig, "close.send")
         ELSE Over(sig, Return(PyNone))
close(sig) ==
    IF sig.cls = "copy-and-paste"
    THEN IF sig.reader
         THEN LET sent == send(sig, BYE) IN
              IF ~sig.read_transport THEN Over(sent.sig, Raise("AttributeError"))
              ELSE Over([sent.sig EXCEPT !.released = @ \cup {"read_transport"},
                                         !.reader = FALSE], Return(PyNone))
         ELSE Over(sig, Return(PyNone))
    ELSE IF sig.cls \in StreamCarriers
    THEN LET s1 == IF sig.writer
                   THEN [send(sig, BYE).sig EXCEPT !.released = @ \cup {"writer"},
                                                   !.reader = FALSE, !.writer = FALSE]
                   ELSE sig
             s2 == IF s1.server
                   THEN [s1 EXCEPT !.released = @ \cup
                             (IF sig.cls = "unix-socket" THEN {"server", "path"}
                              ELSE {"server"}),
                                   !.server = FALSE]
                   ELSE s1
         IN Over(s2, Return(PyNone))
    ELSE IF sig.websocket = "open"
         THEN LET sent == send(sig, PyNone) IN
              IF sent.over /\ sent.out.kind = "raise" THEN sent
              ELSE Suspended(sent.sig, "close.send")
         ELSE Over(sig, Return(PyNone))

\* connect(), from the call to its first suspension.
connect(sig) ==
    IF sig.cls = "copy-and-paste"
    THEN Suspended([sig EXCEPT !.reader = TRUE], "connect_read_pipe")
    ELSE IF sig.cls \in StreamCarriers
    THEN Over(sig, Return(PyNone))
    ELSE LET url == getSignedURL("signaling.py", sig.environ, Now, "GET",
                                 "kinesis-video-signaling", "eu-west-2", "127.0.0.1",
                                 sig.host)
         IN IF url.kind = "raise" THEN Over(sig, url)
            ELSE Suspended([sig EXCEPT !.opens = @ + 1,
                                       !.signed = Append(@, url.value),
                                       !.opened = Append(@, sig.host)],
                           "create_connection")

receiveAlwaysDials(sig) ==
    IF sig.cls = "copy-and-paste"
    THEN IF sig.reader THEN Suspended(sig, "readline")
         ELSE Over(sig, Raise("AttributeError"))
    ELSE IF sig.cls \in StreamCarriers
    THEN Suspended([sig EXCEPT !.dials = @ + 1], "open_connection")
    ELSE IF sig.websocket = "None" THEN Over(sig, Raise("AttributeError"))
         ELSE Suspended(sig, "recv")
\* receive(), from the call to its first suspension.
receive(sig) ==
    IF sig.cls = "copy-and-paste"
    THEN IF sig.reader THEN Suspended(sig, "readline")
         ELSE Over(sig, Raise("AttributeError"))
    ELSE IF sig.cls \in StreamCarriers
    THEN IF sig.writer THEN Suspended(sig, "readuntil")
         ELSE Suspended([sig EXCEPT !.dials = @ + 1], "open_connection")
    ELSE IF sig.websocket = "None" THEN Over(sig, Raise("AttributeError"))
         ELSE Suspended(sig, "recv")

\* What the outside does to a suspended call.
Happens(what) == [ev |-> what]
Data(payload) == [ev |-> "data", payload |-> payload]

Idle(sig) == [sig EXCEPT !.await = "idle", !.pending = PyNone]

\* A suspended call goes on when ev happens: up to its next suspension or its end.
resume(sig, ev) ==
    IF sig.await = "start_server"
    THEN IF ev.ev = "listening"
         THEN Suspended([sig EXCEPT !.server = TRUE], "connected.wait")
         ELSE Over(Idle(sig), Raise("OSError"))
    ELSE IF sig.await = "connected.wait"
    THEN LET s1 == [sig EXCEPT !.reader = TRUE, !.writer = TRUE]
             data == object_to_string(sig.pending)
         IN IF data.kind = "raise" THEN Over(Idle(s1), data)
            ELSE Over(Idle(Write(s1, data.value)), Return(PyNone))
    ELSE IF sig.await = "open_connection"
    THEN IF ev.ev = "connected"
         THEN Suspended([sig EXCEPT !.reader = TRUE, !.writer = TRUE], "readuntil")
         ELSE Over(Idle(sig), Raise("ConnectionRefusedError"))
    ELSE IF sig.await = "readuntil"
    THEN IF ev.ev = "data" THEN Over(Idle(sig), object_from_string(ev.payload))
         ELSE IF ev.ev = "eof" THEN Over(Idle(sig), Return(PyNone))
         ELSE Over(Idle(sig), Raise("ConnectionResetError"))
    ELSE IF sig.await = "readline"
    THEN IF ev.ev = "data" THEN Over(Idle(sig), object_from_string(ev.payload))
         ELSE Over(Idle(sig), object_from_string(NotJson("")))
    ELSE IF sig.await = "recv"
    THEN IF ev.ev = "data" THEN Over(Idle(sig), object_from_string(ev.payload))
         ELSE Over(Idle(sig), Raise("ConnectionClosed"))
    ELSE IF sig.await = "websocket.send"
    THEN IF ev.ev = "sent"
         THEN Over(Idle(Write(sig, object_to_string(sig.pending).value)), Return(PyNone))
         ELSE Over(Idle(sig), Raise("ConnectionClosed"))
    ELSE IF sig.await = "close.send"
    THEN IF ev.ev = "sent"
         THEN Over(Idle([Write(sig, object_to_string(sig.pending).value)
                            EXCEPT !.websocket = "closed",
                                   !.released = @ \cup {"websocket"}]), Return(PyNone))
         ELSE Over(Idle(sig), Raise("ConnectionClosed"))
    ELSE IF sig.await = "connect_read_pipe"
    THEN Over(Idle([sig EXCEPT !.read_transport = TRUE]), Return(PyNone))
    ELSE IF sig.await = "create_connection"
    THEN IF ev.ev = "opened"
         THEN Over(Idle([sig EXCEPT !.websocket = "open"]), Return(PyNone))
         ELSE Over(Idle(sig), Raise("WebSocketException"))
    ELSE Over(sig, Raise("RuntimeError"))

\* The events that can end the await a suspended call is in.
Events(sig, payloads) ==
    IF sig.await = "start_server" THEN {Happens("listening"), Happens("error")}
    ELSE IF sig.await = "connected.wait" THEN {Happens("peer")}
    ELSE IF sig.await = "open_connection" THEN {Happens("connected"), Happens("error")}
    ELSE IF sig.await = "readuntil"
         THEN {Data(p) : p \in payloads} \cup {Happens("eof"), Happens("error")}
    ELSE IF sig.await = "readline"
         THEN {Data(p) : p \in payloads} \cup {Happens("eof")}
    ELSE IF sig.await = "recv"
         THEN {Data(p) : p \in payloads} \cup {Happens("error")}
    ELSE IF sig.await \in {"websocket.send", "close.send"}
         THEN {Happens("sent"), Happens("error")}
    ELSE IF sig.await = "connect_read_pipe" THEN {Happens("piped")}
    ELSE IF sig.await = "create_connection" THEN {Happens("opened"), Happens("error")}
    ELSE {}

\* ------------------------------------------------------- what the peer sends

RemoteOffer == RTCSessionDescription("remote-offer", "offer")
RemoteAnswer == RTCSessionDescription("remote-answer", "answer")
RemoteCandidate ==
    [RTCIceCandidate(1, <<"f1">>, <<"fe80", ":", ":", "1">>, 9, 1, <<"udp">>, <<"host">>)
        EXCEPT !.sdpMid = Some("0"), !.sdpMLineIndex = Some(0)]

\* Frames that do not decode to a message: text that is no JSON, a message
\* without a field its type needs (an offer without sdp, a candidate without id
\* and label), a type outside the four, and a candidate whose text is empty.
MalformedPayloads == {NotJson("{"), NotJson("")}
IncompletePayloads ==
    {JsonText(<<<<"type", "offer">>>>),
     JsonText(<<<<"sdp", "v=0">>>>),
     JsonText(<<<<"candidate", <<"candidate", ":">> \o candidate_to_sdp(RemoteCandidate)>>,
                <<"type", "candidate">>>>)}
UnknownTypePayloads == {JsonText(<<<<"type", "hello">>>>)}
EmptyCandidatePayloads ==
    {JsonText(<<<<"candidate", <<>>>>, <<"id", Some("0")>>, <<"label", Some(0)>>,
                <<"type", "candidate">>>>)}
\* Keepalive frames of the websocket endpoint: an empty frame, and the notice
\* that the endpoint request timed out.
KeepalivePayloads ==
    {NotJson(""), JsonText(<<<<"message", "Endpoint request timed out">>>>)}
BadPayloads ==
    MalformedPayloads \cup IncompletePayloads \cup UnknownTypePayloads
        \cup EmptyCandidatePayloads \cup KeepalivePayloads

GoodPayloads ==
    {object_to_string(m).value : m \in {RemoteOffer, RemoteAnswer, RemoteCandidate, BYE}}

InboundPayloads == GoodPayloads \cup BadPayloads

\* The sender ids a frame can come with: offers come from either viewer.
Senders(payload) ==
    IF payload = object_to_string(RemoteOffer).value
    THEN {Some("viewer1"), Some("viewer2")}
    ELSE {Some("viewer1")}

\* ------------------------------------------------------------ the engine

LocalOffer == RTCSessionDescription("local-offer", "offer")
LocalAnswer == RTCSessionDescription("local-answer", "answer")

\* ------------------------------------------------- the signaling call in progress

Pending == [kind |-> "pending"]

ReadAwaits == {"readuntil", "readline", "recv"}

\* The outside ends the await the signaling call is suspended in: a peer
\* connects, a frame arrives (with the id of its sender), the connection fails.
TransportEvent ==
    /\ signaling.await # "idle"
    /\ signaling.await \in ReadAwaits => received < MaxInbound
    /\ \E ev \in Events(signaling, InboundPayloads) :
         \E sender \in (IF ev.ev = "data" THEN Senders(ev.payload) ELSE {None}) :
            LET r == resume(signaling, ev) IN
            /\ signaling' = r.sig
            /\ ret' = IF r.over THEN r.out ELSE Pending
            /\ inboundSender' = IF signaling.await \in ReadAwaits THEN sender
                                ELSE inboundSender
            /\ received' = IF signaling.await \in ReadAwaits THEN received + 1
                           ELSE received
    /\ UNCHANGED <<codecVars, signerVars, mainVars, drvVars>>

\* ----------------------------------------------------------- run(), __main__

\* The awaits of run().
RunAwaits ==
    {"signaling.connect", "pc.createOffer", "pc.setLocalDescription(offer)",
     "signaling.send(offer)", "signaling.receive", "pc.setRemoteDescription",
     "recorder.start", "pc.createAnswer", "pc.setLocalDescription(answer)",
     "signaling.send(answer)", "pc.addIceCandidate"}

\* run() calls a method of the signaling object, r being the call up to its
\* first suspension, and awaits it.  calls records the call, after what receive()
\* was seen to return (seen), if it just returned.
AwaitSignaling(seen, name, r) ==
    /\ pc' = name
    /\ calls' = calls \o seen \o <<name>>
    /\ signaling' = r.sig
    /\ ret' = IF r.over THEN r.out ELSE Pending

\* run() calls the engine or the recorder and awaits the call.
AwaitEngine(seen, name) ==
    /\ pc' = name
    /\ calls' = calls \o seen \o <<name>>
    /\ ret' = Pending
    /\ UNCHANGED signaling

\* The try block of __main__ is left (run() returned, raised, or the wait for
\* it was interrupted) and the finally block starts with recorder.stop().
Finally(seen, how) ==
    /\ ending' = how
    /\ pc' = "recorder.stop"
    /\ calls' = calls \o seen \o <<"recorder.stop">>
    /\ signaling' = Idle(signaling)
    /\ ret' = Pending

\* The top of the loop: obj, remoteClientId = await signaling.receive()
Loop(seen) == AwaitSignaling(seen, "signaling.receive", receive(signaling))

\* __main__ up to the first await of run(): the URL is signed (SystemExit ends
\* the process there), the objects are made, run() starts and connects.
Main ==
    /\ pc = "start"
    /\ LET url == getSignedURL("cli.py", environ, Now, "GET", "kinesisvideo", "eu-west-2",
                               "endpoint", PlainURL("wss://endpoint"))
       IN
       IF url.kind = "raise"
       THEN /\ pc' = "exit"
            /\ ending' = url.printed
            /\ UNCHANGED <<calls, signaling, ret>>
       ELSE /\ AwaitSignaling(<<>>, "signaling.connect",
                              connect([signaling EXCEPT !.host = url.value]))
            /\ UNCHANGED ending
    /\ UNCHANGED <<codecVars, signerVars, drvVars, role, environ, inboundSender, connectionState,
                   obj, remoteClientId, routing, received, cleanupError>>

\* await signaling.connect() is over; the offerer asks the engine for an offer.
ConnectDoneNoOffer ==
    /\ pc = "signaling.connect" /\ ret # Pending
    /\ IF ret.kind = "raise" THEN Finally(<<>>, ret.exc)
       ELSE Loop(<<>>) /\ UNCHANGED ending
    /\ UNCHANGED <<codecVars, signerVars, drvVars, role, environ, inboundSender, connectionState,
                   obj, remoteClientId, routing, received, cleanupError>>
ConnectDone ==
    /\ pc = "signaling.connect" /\ ret # Pending
    /\ IF ret.kind = "raise" THEN Finally(<<>>, ret.exc)
       ELSE IF role = "offer" THEN AwaitEngine(<<>>, "pc.createOffer") /\ UNCHANGED ending
       ELSE Loop(<<>>) /\ UNCHANGED ending
    /\ UNCHANGED <<codecVars, signerVars, drvVars, role, environ, inboundSender, connectionState,
                   obj, remoteClientId, routing, received, cleanupError>>

CreateOfferDone ==
    /\ pc = "pc.createOffer"
    /\ \/ AwaitEngine(<<>>, "pc.setLocalDescription(offer)") /\ UNCHANGED ending
       \/ Finally(<<>>, "EngineError")
    /\ UNCHANGED <<codecVars, signerVars, drvVars, role, environ, inboundSender, connectionState,
                   obj, remoteClientId, routing, received, cleanupError>>

\* await signaling.send(offer, senderClientId="test")
SetLocalOfferDone ==
    /\ pc = "pc.setLocalDescription(offer)"
    /\ \/ /\ AwaitSignaling(<<>>, "signaling.send(offer)", send(signaling, LocalOffer))
          /\ routing' = Append(routing, [senderClientId |-> Some("test"),
                                         recipientClientId |-> None])
          /\ UNCHANGED ending
       \/ Finally(<<>>, "EngineError") /\ UNCHANGED routing
    /\ UNCHANGED <<codecVars, signerVars, drvVars, role, environ, inboundSender, connectionState,
                   obj, remoteClientId, received, cleanupError>>

\* A send() of run() is over: on to the top of the loop.
SendDone ==
    /\ pc \in {"signaling.send(offer)", "signaling.send(answer)"} /\ ret # Pending
    /\ IF ret.kind = "raise" THEN Finally(<<>>, ret.exc)
       ELSE Loop(<<>>) /\ UNCHANGED ending
    /\ UNCHANGED <<codecVars, signerVars, drvVars, role, environ, inboundSender, connectionState,
                   obj, remoteClientId, routing, received, cleanupError>>

\* What receive() was seen to return, for the record of calls.
Returned(o) ==
    IF o.cls = "RTCSessionDescription"
    THEN (IF o.type = "offer" THEN "<- offer" ELSE "<- answer")
    ELSE IF o.cls = "RTCIceCandidate" THEN "<- candidate"
    ELSE IF o = BYE THEN "<- bye"
    ELSE "<- None"

\* The dispatch of what receive() returned.
DispatchNoBye(o) ==
    IF connectionState = "failed" THEN Finally(<<Returned(o)>>, "returned")
    ELSE IF o.cls = "RTCSessionDescription"
         THEN AwaitEngine(<<Returned(o)>>, "pc.setRemoteDescription") /\ UNCHANGED ending
    ELSE IF o.cls = "RTCIceCandidate"
         THEN AwaitEngine(<<Returned(o)>>, "pc.addIceCandidate") /\ UNCHANGED ending
    ELSE Loop(<<Returned(o)>>) /\ UNCHANGED ending
DispatchNoFailedCheck(o) ==
    IF o.cls = "RTCSessionDescription"
    THEN AwaitEngine(<<Returned(o)>>, "pc.setRemoteDescription") /\ UNCHANGED ending
    ELSE IF o.cls = "RTCIceCandidate"
         THEN AwaitEngine(<<Returned(o)>>, "pc.addIceCandidate") /\ UNCHANGED ending
    ELSE IF o = BYE THEN Finally(<<Returned(o)>>, "returned")
    ELSE Loop(<<Returned(o)>>) /\ UNCHANGED ending
DispatchIgnoresOfferCollision(o) ==
    IF connectionState = "failed" THEN Finally(<<Returned(o)>>, "returned")
    ELSE IF o.cls = "RTCSessionDescription" /\ o.type = "offer" /\ role = "offer"
            /\ \A i \in 1..Len(calls) : calls[i] # "<- answer"
         THEN Loop(<<Returned(o)>>) /\ UNCHANGED ending
    ELSE IF o.cls = "RTCSessionDescription"
         THEN AwaitEngine(<<Returned(o)>>, "pc.setRemoteDescription") /\ UNCHANGED ending
    ELSE IF o.cls = "RTCIceCandidate"
         THEN AwaitEngine(<<Returned(o)>>, "pc.addIceCandidate") /\ UNCHANGED ending
    ELSE IF o = BYE THEN Finally(<<Returned(o)>>, "returned")
    ELSE Loop(<<Returned(o)>>) /\ UNCHANGED ending
DispatchRejectsIdleAnswer(o) ==
    IF connectionState = "failed" THEN Finally(<<Returned(o)>>, "returned")
    ELSE IF o.cls = "RTCSessionDescription" /\ o.type = "answer"
            /\ \A i \in 1..Len(calls) : calls[i] # "signaling.send(offer)"
         THEN Finally(<<Returned(o)>>, "InvalidStateError")
    ELSE IF o.cls = "RTCSessionDescription"
         THEN AwaitEngine(<<Returned(o)>>, "pc.setRemoteDescription") /\ UNCHANGED ending
    ELSE IF o.cls = "RTCIceCandidate"
         THEN AwaitEngine(<<Returned(o)>>, "pc.addIceCandidate") /\ UNCHANGED ending
    ELSE IF o = BYE THEN Finally(<<Returned(o)>>, "returned")
    ELSE Loop(<<Returned(o)>>) /\ UNCHANGED ending
DispatchEndsOnNone(o) ==
    IF connectionState = "failed" THEN Finally(<<Returned(o)>>, "returned")
    ELSE IF o.cls = "RTCSessionDescription"
         THEN AwaitEngine(<<Returned(o)>>, "pc.setRemoteDescription") /\ UNCHANGED ending
    ELSE IF o.cls = "RTCIceCandidate"
         THEN AwaitEngine(<<Returned(o)>>, "pc.addIceCandidate") /\ UNCHANGED ending
    ELSE Finally(<<Returned(o)>>, "returned")
DispatchChecksFailedLast(o) ==
    IF o.cls = "RTCSessionDescription"
    THEN AwaitEngine(<<Returned(o)>>, "pc.setRemoteDescription") /\ UNCHANGED ending
    ELSE IF o.cls = "RTCIceCandidate"
         THEN AwaitEngine(<<Returned(o)>>, "pc.addIceCandidate") /\ UNCHANGED ending
    ELSE IF o = BYE THEN Finally(<<Returned(o)>>, "returned")
    ELSE IF connectionState = "failed" THEN Finally(<<Returned(o)>>, "returned")
    ELSE Loop(<<Returned(o)>>) /\ UNCHANGED ending
Dispatch(o) ==
    IF connectionState = "failed" THEN Finally(<<Returned(o)>>, "returned")
    ELSE IF o.cls = "RTCSessionDescription"
         THEN AwaitEngine(<<Returned(o)>>, "pc.setRemoteDescription") /\ UNCHANGED ending
    ELSE IF o.cls = "RTCIceCandidate"
         THEN AwaitEngine(<<Returned(o)>>, "pc.addIceCandidate") /\ UNCHANGED ending
    ELSE IF o = BYE THEN Finally(<<Returned(o)>>, "returned")
    ELSE Loop(<<Returned(o)>>) /\ UNCHANGED ending

ReceiveDone ==
    /\ pc = "signaling.receive" /\ ret # Pending
    /\ IF ret.kind = "raise"
       THEN Finally(<<"<- raise">>, ret.exc) /\ UNCHANGED <<obj, remoteClientId>>
       ELSE /\ obj' = ret.value
            /\ remoteClientId' = inboundSender
            /\ Dispatch(ret.value)
    /\ UNCHANGED <<codecVars, signerVars, drvVars, role, environ, inboundSender, connectionState,
                   routing, received, cleanupError>>

SetRemoteDone ==
    /\ pc = "pc.setRemoteDescription"
    /\ \/ AwaitEngine(<<>>, "recorder.start") /\ UNCHANGED ending
       \/ Finally(<<>>, "EngineError")
    /\ UNCHANGED <<codecVars, signerVars, drvVars, role, environ, inboundSender, connectionState,
                   obj, remoteClientId, routing, received, cleanupError>>

RecorderStartDoneAnswerToAnswer ==
    /\ pc = "recorder.start"
    /\ \/ IF obj.type = "answer"
          THEN AwaitEngine(<<>>, "pc.createAnswer") /\ UNCHANGED ending
          ELSE Loop(<<>>) /\ UNCHANGED ending
       \/ Finally(<<>>, "RecorderError")
    /\ UNCHANGED <<codecVars, signerVars, drvVars, role, environ, inboundSender, connectionState,
                   obj, remoteClientId, routing, received, cleanupError>>
RecorderStartDone ==
    /\ pc = "recorder.start"
    /\ \/ IF obj.type = "offer" THEN AwaitEngine(<<>>, "pc.createAnswer") /\ UNCHANGED ending
          ELSE Loop(<<>>) /\ UNCHANGED ending
       \/ Finally(<<>>, "RecorderError")
    /\ UNCHANGED <<codecVars, signerVars, drvVars, role, environ, inboundSender, connectionState,
                   obj, remoteClientId, routing, received, cleanupError>>

CreateAnswerDone ==
    /\ pc = "pc.createAnswer"
    /\ \/ AwaitEngine(<<>>, "pc.setLocalDescription(answer)") /\ UNCHANGED ending
       \/ Finally(<<>>, "EngineError")
    /\ UNCHANGED <<codecVars, signerVars, drvVars, role, environ, inboundSender, connectionState,
                   obj, remoteClientId, routing, received, cleanupError>>

SetLocalAnswerDoneNoRecipient ==
    /\ pc = "pc.setLocalDescription(answer)"
    /\ \/ /\ AwaitSignaling(<<>>, "signaling.send(answer)", send(signaling, LocalAnswer))
          /\ routing' = Append(routing, [senderClientId |-> None,
                                         recipientClientId |-> None])
          /\ UNCHANGED ending
       \/ Finally(<<>>, "EngineError") /\ UNCHANGED routing
    /\ UNCHANGED <<codecVars, signerVars, drvVars, role, environ, inboundSender,
                   connectionState, obj, remoteClientId, received, cleanupError>>
\* await signaling.send(answer, recipientClientId=remoteClientId)
SetLocalAnswerDone ==
    /\ pc = "pc.setLocalDescription(answer)"
    /\ \/ /\ AwaitSignaling(<<>>, "signaling.send(answer)", send(signaling, LocalAnswer))
          /\ routing' = Append(routing, [senderClientId |-> None,
                                         recipientClientId |-> remoteClientId])
          /\ UNCHANGED ending
       \/ Finally(<<>>, "EngineError") /\ UNCHANGED routing
    /\ UNCHANGED <<codecVars, signerVars, drvVars, role, environ, inboundSender, connectionState,
                   obj, remoteClientId, received, cleanupError>>

AddIceDoneLeavesLoop ==
    /\ pc = "pc.addIceCandidate"
    /\ Finally(<<>>, "returned")
    /\ UNCHANGED <<codecVars, signerVars, drvVars, role, environ, inboundSender,
                   connectionState, obj, remoteClientId, routing, received, cleanupError>>
AddIceDone ==
    /\ pc = "pc.addIceCandidate"
    /\ \/ Loop(<<>>) /\ UNCHANGED ending
       \/ Finally(<<>>, "EngineError")
    /\ UNCHANGED <<codecVars, signerVars, drvVars, role, environ, inboundSender, connectionState,
                   obj, remoteClientId, routing, received, cleanupError>>

\* Ctrl-C while run() is suspended: run_until_complete raises KeyboardInterrupt,
\* which __main__ catches.
KeyboardInterrupt ==
    /\ pc \in RunAwaits
    /\ Finally(<<>>, "KeyboardInterrupt")
    /\ UNCHANGED <<codecVars, signerVars, drvVars, role, environ, inboundSender, connectionState,
                   obj, remoteClientId, routing, received, cleanupError>>

\* The finally block: recorder.stop(), signaling.close(), pc.close(), each run
\* to completion before the next; an exception in one ends the block.
RecorderStopDone ==
    /\ pc = "recorder.stop"
    /\ \/ AwaitSignaling(<<>>, "signaling.close", close(signaling)) /\ UNCHANGED cleanupError
       \/ /\ pc' = "exit"
          /\ cleanupError' = Some("RecorderError")
          /\ UNCHANGED <<calls, signaling, ret>>
    /\ UNCHANGED <<codecVars, signerVars, drvVars, role, environ, inboundSender, connectionState,
                   obj, remoteClientId, routing, received, ending>>

CloseDoneSwallowsError ==
    /\ pc = "signaling.close" /\ ret # Pending
    /\ AwaitEngine(<<>>, "pc.close")
    /\ cleanupError' = IF ret.kind = "raise" THEN Some(ret.exc) ELSE cleanupError
    /\ UNCHANGED <<codecVars, signerVars, drvVars, role, environ, inboundSender,
                   connectionState, obj, remoteClientId, routing, received, ending>>
CloseDone ==
    /\ pc = "signaling.close" /\ ret # Pending
    /\ IF ret.kind = "raise"
       THEN /\ pc' = "exit"
            /\ cleanupError' = Some(ret.exc)
            /\ UNCHANGED <<calls, signaling, ret>>
       ELSE AwaitEngine(<<>>, "pc.close") /\ UNCHANGED cleanupError
    /\ UNCHANGED <<codecVars, signerVars, drvVars, role, environ, inboundSender, connectionState,
                   obj, remoteClientId, routing, received, ending>>

PcCloseDone ==
    /\ pc = "pc.close"
    /\ pc' = "exit"
    /\ connectionState' = "closed"
    /\ UNCHANGED <<codecVars, signerVars, drvVars, sigVars, role, environ, obj, remoteClientId,
                   calls, routing, ending, cleanupError>>

\* The engine's connection-state notifications, which start once a remote
\* description is given to it: connected, or failed, until the engine is closed.
EngineConnects ==
    /\ pc \notin {"start", "exit"}
    /\ connectionState = "new"
    /\ \E i \in 1..Len(calls) : calls[i] = "pc.setRemoteDescription"
    /\ connectionState' = "connected"
    /\ UNCHANGED <<codecVars, signerVars, drvVars, sigVars, pc, role, environ, obj, remoteClientId,
                   calls, routing, ending, cleanupError>>

EngineFails ==
    /\ pc \notin {"start", "exit"}
    /\ connectionState \in {"new", "connected"}
    /\ \E i \in 1..Len(calls) : calls[i] = "pc.setRemoteDescription"
    /\ connectionState' = "failed"
    /\ UNCHANGED <<codecVars, signerVars, drvVars, sigVars, pc, role, environ, obj, remoteClientId,
                   calls, routing, ending, cleanupError>>

\* ------------------------------------------------------------ specifications

AccessKeys == {None, Some(<<"AKIA", "KEY">>), Some(<<"ASIA", "KEY">>)}
SecretKeys == {None, Some("secret")}
Tokens == {None, Some(<<"tok", "=">>)}
Environs == {Env(a, k, t) : a \in AccessKeys, k \in SecretKeys, t \in Tokens}

CodecOff ==
    /\ codecPc = "off" /\ codecObj = PyNone /\ codecStr = NoStr /\ codecRes = Pending

HarnessOff == drvCall = [method |-> "off"] /\ drvLog = <<>>

SignerOff ==
    /\ signerPc = "off" /\ signerCopy = "cli.py" /\ signerTime = Now
    /\ request_url = Pending

MainOff ==
    /\ pc = "off" /\ role = "answer" /\ connectionState = "new"
    /\ obj = PyNone /\ remoteClientId = None /\ calls = <<>> /\ routing = <<>>
    /\ ending = "none" /\ cleanupError = None

\* The process starts: the role is an argument, the credentials are in the
\* environment, nothing is connected.  run() takes any signaling object:
\* __main__ hands it the websocket carrier, and the other three, which
\* create_signaling makes for the other values of args.signaling, are checked
\* under run() as well.
Init ==
    /\ CodecOff /\ HarnessOff /\ SignerOff
    /\ pc = "start"
    /\ role \in {"offer", "answer"}
    /\ environ \in Environs
    /\ \E cls \in Carriers : signaling = NewSignaling(cls, environ)
    /\ ret = Pending
    /\ inboundSender = None
    /\ connectionState = "new"
    /\ obj = PyNone
    /\ remoteClientId = None
    /\ calls = <<>>
    /\ routing = <<>>
    /\ received = 0
    /\ ending = "none"
    /\ cleanupError = None

Next ==
    \/ Main \/ ConnectDone \/ CreateOfferDone \/ SetLocalOfferDone \/ SendDone
    \/ ReceiveDone \/ SetRemoteDone \/ RecorderStartDone \/ CreateAnswerDone
    \/ SetLocalAnswerDone \/ AddIceDone \/ KeyboardInterrupt
    \/ RecorderStopDone \/ CloseDone \/ PcCloseDone
    \/ EngineConnects \/ EngineFails \/ TransportEvent

Spec == Init /\ [][Next]_vars

\* ---------------------------------------------------------------------------
\* The codec on its own: object_to_string and then object_from_string applied
\* to a message, or object_from_string applied to a frame as it arrives.

Nums == 0..MaxNum

Descriptions ==
    {RTCSessionDescription(sdp, type) : sdp \in {"", "v=0"}, type \in {"offer", "answer"}}

\* Candidates whose text fields are single words, as the candidate grammar has them.
Candidates ==
    {[RTCIceCandidate(component, <<"f1">>, ip, port, MaxNum, <<"udp">>, <<"host">>)
        EXCEPT !.relatedAddress = raddr, !.relatedPort = rport, !.tcpType = tcptype,
               !.sdpMid = mid, !.sdpMLineIndex = mline] :
        component \in Nums, ip \in {<<"10.0.0.1">>, <<"fe80", ":", ":", "1">>},
        port \in Nums, raddr \in {None, Some(<<"10.0.0.2">>)},
        rport \in {None, Some(MaxNum)}, tcptype \in {None, Some(<<"active">>)},
        mid \in {None, Some(""), Some("0")},
        mline \in {None} \cup {Some(n) : n \in Nums}}

Messages == Descriptions \cup Candidates \cup {BYE}

SignalingOff ==
    /\ environ = Env(None, None, None)
    /\ signaling = NewSignaling("copy-and-paste", environ)
    /\ ret = Pending /\ inboundSender = None /\ received = 0

InitCodec ==
    /\ MainOff /\ SignalingOff /\ HarnessOff /\ SignerOff
    /\ codecRes = Pending
    /\ \/ codecPc = "input" /\ codecObj \in Messages /\ codecStr = NoStr
       \/ codecPc = "encoded" /\ codecObj = PyNone /\ codecStr \in InboundPayloads

CodecEncode ==
    /\ codecPc = "input"
    /\ codecStr' = object_to_string(codecObj).value
    /\ codecPc' = "encoded"
    /\ UNCHANGED <<codecObj, codecRes, signerVars, mainVars, sigVars, drvVars>>

CodecDecode ==
    /\ codecPc = "encoded"
    /\ codecRes' = object_from_string(codecStr)
    /\ codecPc' = "decoded"
    /\ UNCHANGED <<codecObj, codecStr, signerVars, mainVars, sigVars, drvVars>>

NextCodec == CodecEncode \/ CodecDecode

SpecCodec == InitCodec /\ [][NextCodec]_vars

\* ---------------------------------------------------------------------------
\* The request signer on its own: getSignedURL of each copy, called once with
\* the credentials found in the environment.

\* Session tokens with and without the characters quote() escapes.
SessionTokens ==
    {None, Some(<<"tok">>), Some(<<"tok", "=">>), Some(<<"to", "/", "k", "=", "=">>),
     Some(<<"a", "+", "b", "=">>), Some(<<"=">>), Some(<<"a-b_c.d~e">>)}

SignerEnvirons == {Env(a, k, t) : a \in AccessKeys, k \in SecretKeys, t \in SessionTokens}

Clock == {Now, utcnow("20231231", "235959")}

InitSigner ==
    /\ CodecOff /\ MainOff /\ HarnessOff
    /\ environ \in SignerEnvirons
    /\ signaling = NewSignaling("copy-and-paste", Env(None, None, None))
    /\ ret = Pending /\ inboundSender = None /\ received = 0
    /\ signerPc = "input"
    /\ signerCopy \in Copies
    /\ signerTime \in Clock
    /\ request_url = Pending

\* url = getSignedURL("GET", service, region, host, endpoint)
SignerCall ==
    /\ signerPc = "input"
    /\ request_url' = getSignedURL(signerCopy, environ, signerTime, "GET", "kinesisvideo",
                                   "eu-west-2", "endpoint", PlainURL("wss://endpoint"))
    /\ signerPc' = "signed"
    /\ UNCHANGED <<signerCopy, signerTime, codecVars, mainVars, sigVars, drvVars>>

NextSigner == SignerCall

SpecSigner == InitSigner /\ [][NextSigner]_vars

\* ---------------------------------------------------------------------------
\* A carrier on its own: a caller that awaits one method after another, in any
\* order.

NoCall == [method |-> "none"]

\* Whether the carrier holds an established channel.
Connected(sig) ==
    IF sig.cls = "copy-and-paste" THEN sig.reader /\ sig.read_transport
    ELSE IF sig.cls \in StreamCarriers THEN sig.writer
    ELSE sig.websocket = "open"

InitTransport ==
    /\ CodecOff /\ MainOff /\ SignerOff
    /\ environ \in Environs
    /\ \E cls \in Carriers : signaling = NewSignaling(cls, environ)
    /\ ret = Pending /\ inboundSender = None /\ received = 0
    /\ drvCall = NoCall /\ drvLog = <<>>

\* The caller calls a method, with descr when it is send(descr): r is the call
\* up to its first suspension.
Call(method, descr, r) ==
    /\ drvCall = NoCall
    /\ Len(drvLog) < MaxCalls
    /\ drvCall' = [method |-> method, descr |-> descr,
                   connected |-> Connected(signaling), wire |-> Len(signaling.wire)]
    /\ signaling' = r.sig
    /\ ret' = IF r.over THEN r.out ELSE Pending
    /\ UNCHANGED <<drvLog, codecVars, signerVars, mainVars, inboundSender, received>>

CallConnect == Call("connect", PyNone, connect(signaling))
CallSend ==
    \E descr \in {LocalOffer, BYE, PyNone} : Call("send", descr, send(signaling, descr))
CallReceive == Call("receive", PyNone, receive(signaling))
CallClose == Call("close", PyNone, close(signaling))

\* The call is over: the caller notes how it ended and what it wrote.
CallReturns ==
    /\ drvCall # NoCall
    /\ ret # Pending
    /\ drvLog' = Append(drvLog,
           [method |-> drvCall.method, descr |-> drvCall.descr,
            connected |-> drvCall.connected,
            kind |-> ret.kind,
            wrote |-> SubSeq(signaling.wire, drvCall.wire + 1, Len(signaling.wire))])
    /\ drvCall' = NoCall
    /\ ret' = Pending
    /\ UNCHANGED <<signaling, codecVars, signerVars, mainVars, inboundSender, received>>

NextTransport ==
    \/ CallConnect \/ CallSend \/ CallReceive \/ CallClose
    \/ CallReturns \/ TransportEvent

SpecTransport == InitTransport /\ [][NextTransport]_vars

\* ---------------------------------------------------------------------------
\* Properties.

Count(seq, x) == Cardinality({i \in 1..Len(seq) : seq[i] = x})
Has(seq, x) == \E i \in 1..Len(seq) : seq[i] = x

OfferText == object_to_string(LocalOffer).value
AnswerText == object_to_string(LocalAnswer).value
ByeText == object_to_string(BYE).value

\* The states of the negotiation, read off the position of run() and its calls:
\* Closed once the loop is left; Connected once a remote description was
\* handled to the end (applied, and answered if it was an offer);
\* HaveRemoteOffer while a remote offer is being handled; AwaitingRemote once
\* the local offer was sent; Idle before that.
LoopExited == pc \in {"recorder.stop", "signaling.close", "pc.close", "exit"}
IsDescription(i) == calls[i] \in {"<- offer", "<- answer"}
HandledToTheEnd(i) == \E k \in (i + 1)..Len(calls) : calls[k] = "signaling.receive"
OrchState ==
    IF LoopExited THEN "Closed"
    ELSE IF \E i \in 1..Len(calls) : IsDescription(i) /\ HandledToTheEnd(i)
    THEN "Connected"
    ELSE IF \E i \in 1..Len(calls) : calls[i] = "<- offer" THEN "HaveRemoteOffer"
    ELSE IF Has(calls, "signaling.send(offer)") /\ Has(calls, "signaling.receive")
    THEN "AwaitingRemote"
    ELSE "Idle"

\* C1: when the first receive() of run() is issued, an offerer has asked the
\* engine for an offer and has put exactly one frame on the transport, the
\* offer; an answerer has put nothing; and before that call nothing but the
\* offer is written.
C1_OfferBeforeFirstReceive ==
    LET nrecv == Count(calls, "signaling.receive") IN
    /\ (pc = "signaling.receive" /\ nrecv = 1) =>
          IF role = "offer"
          THEN /\ calls = <<"signaling.connect", "pc.createOffer",
                            "pc.setLocalDescription(offer)", "signaling.send(offer)",
                            "signaling.receive">>
               /\ Len(signaling.wire) = 1
               /\ object_from_string(signaling.wire[1].text) = Return(LocalOffer)
          ELSE /\ calls = <<"signaling.connect", "signaling.receive">>
               /\ signaling.wire = <<>>
    /\ (ending = "none" /\ nrecv = 0) =>
          IF role = "offer"
          THEN signaling.wire \in {<<>>, <<Frame(OfferText)>>}
          ELSE signaling.wire = <<>>

C1_Witness ==
    /\ role = "offer" /\ pc = "signaling.receive"
    /\ Count(calls, "signaling.receive") = 1
    /\ signaling.wire = <<Frame(OfferText)>>

\* C2: an answerer whose first message is an offer gives it to the engine as
\* the remote description, and when its loop is back at receive() it has sent
\* exactly one frame, the answer, and is Connected; until then it has sent at
\* most that answer.
C2_AnswererAnswersOffer ==
    (role = "answer" /\ Len(calls) >= 3 /\ calls[3] = "<- offer") =>
        /\ calls[2] = "signaling.receive"
        /\ calls[4] = "pc.setRemoteDescription"
        /\ (Count(calls, "signaling.receive") = 1 /\ ending = "none") =>
              /\ OrchState = "HaveRemoteOffer"
              /\ signaling.wire \in {<<>>, <<Frame(AnswerText)>>}
        /\ Count(calls, "signaling.receive") >= 2 =>
              /\ Len(calls) >= 9
              /\ SubSeq(calls, 4, 9) =
                     <<"pc.setRemoteDescription", "recorder.start", "pc.createAnswer",
                       "pc.setLocalDescription(answer)", "signaling.send(answer)",
                       "signaling.receive">>
              /\ Len(signaling.wire) >= 1
              /\ object_from_string(signaling.wire[1].text) = Return(LocalAnswer)
        /\ (pc = "signaling.receive" /\ Count(calls, "signaling.receive") = 2) =>
              /\ OrchState = "Connected"
              /\ Len(signaling.wire) = 1

C2_Witness ==
    /\ role = "answer" /\ Len(calls) = 9 /\ calls[3] = "<- offer"
    /\ pc = "signaling.receive"
    /\ signaling.wire = <<Frame(AnswerText)>>

ByeSeen == Has(calls, "<- bye")

RunSends(seq) == Count(seq, "signaling.send(offer)") + Count(seq, "signaling.send(answer)")

C4_CloseTwice ==
    \A i \in 1..(Len(drvLog) - 1) :
        (/\ drvLog[i].method = "close" /\ drvLog[i].connected
         /\ drvLog[i + 1].method = "close") =>
            /\ drvLog[i].kind = "return"
            /\ drvLog[i + 1].kind = "return"
            /\ Count(drvLog[i].wrote \o drvLog[i + 1].wrote, Frame(ByeText)) <= 1

\* C5 as stated: when the program has ended after run() was started, close()
\* was called on the transport exactly once.
C5_CloseExactlyOnce ==
    (pc = "exit" /\ Has(calls, "signaling.connect")) =>
        Count(calls, "signaling.close") = 1

ChangesCount(x) == Count(calls', x) # Count(calls, x)

\* C6 as stated: once the engine has reported failed there is no further
\* setRemoteDescription, addIceCandidate or send of run().
C6_NothingAfterFailed ==
    [][connectionState = "failed" =>
          /\ ~ChangesCount("pc.setRemoteDescription")
          /\ ~ChangesCount("pc.addIceCandidate")
          /\ RunSends(calls') = RunSends(calls)]_vars

\* C6: once the engine has reported failed, the next return of receive() ends
\* the loop without dispatching what it returned, so there is no further
\* setRemoteDescription and no further addIceCandidate; the only send of run()
\* that can follow is the answer of an offer whose handling was under way when
\* the failure was reported.
C6_FailedEndsLoopAtNextReceive ==
    [][connectionState = "failed" =>
          /\ ~ChangesCount("pc.setRemoteDescription")
          /\ ~ChangesCount("pc.addIceCandidate")
          /\ (pc = "signaling.receive" /\ pc' # pc) => pc' = "recorder.stop"
          /\ (pc = "signaling.receive" /\ calls' # calls) =>
                 calls'[Len(calls')] = "recorder.stop"
          /\ RunSends(calls') # RunSends(calls) =>
                 /\ pc = "pc.setLocalDescription(answer)"
                 /\ pc' = "signaling.send(answer)"]_vars

C6_Witness ==
    /\ connectionState = "failed" /\ ending = "returned" /\ ~ByeSeen
    /\ Has(calls, "<- candidate")
    /\ pc = "recorder.stop"

\* The exceptions object_from_string raises for a frame it cannot decode.
DecodeErrors ==
    {"JSONDecodeError", "KeyError", "TypeError", "IndexError", "AssertionError",
     "ValueError"}

\* C9 as stated: when receive() has failed to decode a frame, run() goes on
\* with the next receive(): no engine call, no send, the loop not left.
C9_DecodeErrorLoopContinues ==
    [][(/\ pc = "signaling.receive" /\ ret.kind = "raise"
        /\ ret.exc \in DecodeErrors
        /\ calls' # calls /\ ending' # "KeyboardInterrupt") =>
           /\ pc' = "signaling.receive"
           /\ calls'[Len(calls')] = "signaling.receive"]_vars

\* C10: with the access key or the secret key absent the program prints "No
\* access key is available." and exits; with both present, an access key that
\* starts with ASIA and no session token it prints "Detected temporary
\* credentials. You must specify a token." and exits; either way it has no
\* URL, has not started run() and has attempted no connection.
C10_NoCredentialsNoConnect ==
    LET access_key == environ.AWS_ACCESS_KEY_ID
        secret_key == environ.AWS_SECRET_ACCESS_KEY
        token == environ.AWS_SESSION_TOKEN
        stopped == /\ pc = "exit" /\ calls = <<>>
                   /\ signaling.opens = 0 /\ signaling.await = "idle"
    IN pc # "start" =>
        /\ (access_key = None \/ secret_key = None) =>
               stopped /\ ending = "No access key is available."
        /\ (/\ access_key # None /\ secret_key # None
            /\ startswith(access_key[1], "ASIA") /\ token = None) =>
               /\ stopped
               /\ ending = "Detected temporary credentials. You must specify a token."

C10_Witness ==
    /\ pc = "exit"
    /\ environ.AWS_ACCESS_KEY_ID = Some(<<"ASIA", "KEY">>)
    /\ environ.AWS_SECRET_ACCESS_KEY # None
    /\ environ.AWS_SESSION_TOKEN = None

\* C7: object_from_string(object_to_string(m)) returns m, for every message m.
C7_RoundTrip ==
    (codecPc = "decoded" /\ codecObj # PyNone) => codecRes = Return(codecObj)

C7_Witness ==
    /\ codecPc = "decoded"
    /\ codecObj.cls = "RTCIceCandidate"
    /\ codecObj.ip = <<"fe80", ":", ":", "1">>
    /\ codecObj.relatedPort # None /\ codecObj.sdpMid = None
    /\ codecRes = Return(codecObj)

\* C8 as stated: a frame that is no JSON, that lacks a field its type needs, or
\* whose type is none of the four makes object_from_string raise.
C8_BadPayloadRaises ==
    (/\ codecPc = "decoded"
     /\ codecStr \in MalformedPayloads \cup IncompletePayloads \cup UnknownTypePayloads)
        => codecRes.kind = "raise"

\* The code points of the query keys, for their order as strings.
KeyCodePoints ==
    ("X-Amz-Algorithm" :> <<88, 45, 65, 109, 122, 45, 65, 108, 103, 111, 114, 105, 116, 104, 109>> @@
     "X-Amz-ChannelARN" :> <<88, 45, 65, 109, 122, 45, 67, 104, 97, 110, 110, 101, 108, 65, 82, 78>> @@
     "X-Amz-Credential" :> <<88, 45, 65, 109, 122, 45, 67, 114, 101, 100, 101, 110, 116, 105, 97, 108>> @@
     "X-Amz-Date" :> <<88, 45, 65, 109, 122, 45, 68, 97, 116, 101>> @@
     "X-Amz-Expires" :> <<88, 45, 65, 109, 122, 45, 69, 120, 112, 105, 114, 101, 115>> @@
     "X-Amz-Security-Token" :> <<88, 45, 65, 109, 122, 45, 83, 101, 99, 117, 114, 105, 116, 121, 45, 84, 111, 107, 101, 110>> @@
     "X-Amz-SignedHeaders" :> <<88, 45, 65, 109, 122, 45, 83, 105, 103, 110, 101, 100, 72, 101, 97, 100, 101, 114, 115>> @@
     "X-Amz-Signature" :> <<88, 45, 65, 109, 122, 45, 83, 105, 103, 110, 97, 116, 117, 114, 101>> @@
     "configuration-name" :> <<99, 111, 110, 102, 105, 103, 117, 114, 97, 116, 105, 111, 110, 45, 110, 97, 109, 101>>)

RECURSIVE LexLess(_, _)
LexLess(a, b) ==
    IF b = <<>> THEN FALSE
    ELSE IF a = <<>> THEN TRUE
    ELSE IF Head(a) # Head(b) THEN Head(a) < Head(b)
    ELSE LexLess(Tail(a), Tail(b))

\* The parameters of a query string, "&" between them, and the key of each, up to
\* its first "=".
QueryParams(querystring) == split_sep_all(querystring, "&")
QueryKey(param) == split_sep_1(param, "=")[1]
QueryValue(param) == split_sep_1(param, "=")[2]
QueryKeys(querystring) ==
    LET params == QueryParams(querystring) IN
    [i \in 1..Len(params) |-> QueryKey(params[i])]

\* The query string that went into the canonical request whose hash was signed.
HashedQuery(url) == url.signature.msg.canonical_request.sha256.canonical_querystring

Signed == signerPc = "signed" /\ request_url.kind = "return"

\* C11: in every signed URL the query keys before X-Amz-Signature are single
\* names in strictly ascending order as strings, whether or not the channel ARN
\* and the security token are among them, and the query string up to
\* "&X-Amz-Signature=" is the one in the canonical request that was hashed.
C11_QueryKeysAscending ==
    Signed =>
        LET hashed == HashedQuery(request_url.value)
            keys == QueryKeys(hashed)
        IN /\ request_url.value.canonical_querystring
                 = hashed \o <<"&", "X-Amz-Signature", "=">>
           /\ \A i \in 1..Len(keys) :
                 Len(keys[i]) = 1 /\ keys[i][1] \in DOMAIN KeyCodePoints
           /\ \A i \in 1..(Len(keys) - 1) :
                 LexLess(KeyCodePoints[keys[i][1]], KeyCodePoints[keys[i + 1][1]])

C11_Witness ==
    /\ Signed /\ signerCopy = "cli.py"
    /\ QueryKeys(HashedQuery(request_url.value)) =
          <<<<"X-Amz-Algorithm">>, <<"X-Amz-ChannelARN">>, <<"X-Amz-Credential">>,
            <<"X-Amz-Date">>, <<"X-Amz-Expires">>, <<"X-Amz-Security-Token">>,
            <<"X-Amz-SignedHeaders">>>>

SecurityTokenParams(querystring) ==
    LET params == QueryParams(querystring) IN
    {i \in 1..Len(params) : QueryKey(params[i]) = <<"X-Amz-Security-Token">>}

\* C12 as stated: the value of X-Amz-Security-Token in the final query string has
\* "%253D" for each "=" of the session token, and neither "=" nor "%3D".
C12_TokenEqualsDoubleEncoded ==
    Signed =>
        LET params == QueryParams(request_url.value.canonical_querystring)
            token == environ.AWS_SESSION_TOKEN[1]
        IN \A i \in SecurityTokenParams(request_url.value.canonical_querystring) :
              LET value == QueryValue(params[i]) IN
              /\ ~Has(value, "=") /\ ~Has(value, "%3D")
              /\ Count(value, "%253D") = Count(token, "=")

\* C13 as stated: the signed query string has the X-Amz-Security-Token parameter
\* exactly when a session token is supplied.
C13_TokenCarriedWheneverSupplied ==
    Signed =>
        (environ.AWS_SESSION_TOKEN # None
            <=> SecurityTokenParams(HashedQuery(request_url.value)) # {})

\* C14 as stated: the websocket carrier opens its socket to the URL that its
\* connect() obtained from getSignedURL, once for each connect() that got one.
C14_OpensTheURLItSigned ==
    signaling.cls = "websocket" =>
        /\ Len(signaling.opened) = Len(signaling.signed)
        /\ signaling.opens = Len(signaling.opened)
        /\ \A i \in 1..Len(signaling.opened) : signaling.opened[i] = signaling.signed[i]

\* C15 as stated: a step that delivers a keepalive frame to the websocket
\* carrier's receive() leaves the call waiting for the next frame: the call
\* neither returns nor raises.
C15_KeepaliveFramesSkipped ==
    [][\A p \in KeepalivePayloads :
          LET r == resume(signaling, Data(p)) IN
          (/\ signaling.cls = "websocket" /\ signaling.await = "recv"
           /\ signaling' = r.sig
           /\ ret' = IF r.over THEN r.out ELSE Pending) =>
              (signaling'.await = "recv" /\ ret' = Pending)]_vars

\* C16 as stated: on an open websocket send(None) returns and has written one
\* Bye frame, and close() returns, has written one Bye frame and has closed the
\* socket.
C16_WebsocketSendNoneIsBye ==
    (signaling.cls = "websocket" /\ drvCall = NoCall /\ drvLog # <<>>) =>
        LET last == drvLog[Len(drvLog)] IN
        /\ (last.method = "send" /\ last.descr = PyNone /\ last.connected) =>
               last.kind = "return" /\ last.wrote = <<Frame(ByeText)>>
        /\ (last.method = "close" /\ last.connected) =>
               /\ last.kind = "return" /\ last.wrote = <<Frame(ByeText)>>
               /\ signaling.websocket = "closed"

LastCall == drvLog[Len(drvLog)]
CallOver(method) == drvCall = NoCall /\ drvLog # <<>> /\ LastCall.method = method

\* C17 as stated: when connect() of the TCP or the unix-socket carrier has
\* returned, a peer has connected and the carrier holds a reader and a writer.
C17_StreamConnectWaitsForPeer ==
    (signaling.cls \in StreamCarriers /\ CallOver("connect") /\ LastCall.kind = "return") =>
        signaling.reader /\ signaling.writer

\* The handle a carrier releases in close().
Handle(sig) ==
    IF sig.cls = "copy-and-paste" THEN "read_transport"
    ELSE IF sig.cls \in StreamCarriers THEN "writer"
    ELSE "websocket"

\* C18 as stated: when close() on a connected carrier is over, whether or not its
\* Bye was sent, the carrier is no longer connected and its handle is released.
C18_CloseReleasesAlways ==
    (CallOver("close") /\ LastCall.connected) =>
        /\ ~Connected(signaling)
        /\ Handle(signaling) \in signaling.released

\* C19 as stated: close() of a connected copy-and-paste carrier writes nothing,
\* and close() of a connected carrier of the other three kinds that returned
\* has written a Bye.
C19_CopyPasteCloseWritesNoBye ==
    (CallOver("close") /\ LastCall.connected) =>
        IF signaling.cls = "copy-and-paste"
        THEN LastCall.wrote = <<>>
        ELSE LastCall.kind = "return" => LastCall.wrote = <<Frame(ByeText)>>

\* C20: an answerer whose first message is an answer gives it to the engine as
\* the remote description; while that message is being handled and when the
\* loop is back at receive() nothing has been written on the transport, and
\* back at receive() the negotiation is Connected.
C20_IdleAnswerAccepted ==
    (role = "answer" /\ Len(calls) >= 3 /\ calls[3] = "<- answer") =>
        /\ calls[2] = "signaling.receive"
        /\ Len(calls) >= 4 /\ calls[4] = "pc.setRemoteDescription"
        /\ (Count(calls, "signaling.receive") = 1 /\ ending = "none") =>
              signaling.wire = <<>>
        /\ Count(calls, "signaling.receive") >= 2 =>
              /\ Len(calls) >= 6
              /\ SubSeq(calls, 4, 6) =
                     <<"pc.setRemoteDescription", "recorder.start", "signaling.receive">>
        /\ (pc = "signaling.receive" /\ Count(calls, "signaling.receive") = 2) =>
              /\ OrchState = "Connected"
              /\ signaling.wire = <<>>

C20_Witness ==
    /\ role = "answer" /\ Len(calls) = 6 /\ calls[3] = "<- answer"
    /\ pc = "signaling.receive" /\ signaling.wire = <<>>
    /\ OrchState = "Connected"

Opt(present, key) == IF present THEN <<<<key>>>> ELSE <<>>

\* The order of the keys as the code appends them, and as the list of the
\* signed URL's parameters states it.
KeysInCodeOrder(copy, hasToken) ==
    <<<<"X-Amz-Algorithm">>>> \o Opt(copy = "cli.py", "X-Amz-ChannelARN")
    \o <<<<"X-Amz-Credential">>, <<"X-Amz-Date">>, <<"X-Amz-Expires">>>>
    \o Opt(hasToken, "X-Amz-Security-Token") \o <<<<"X-Amz-SignedHeaders">>>>
    \o Opt(copy # "cli.py", "configuration-name") \o <<<<"X-Amz-Signature">>>>
KeysInStatedOrder(copy, hasToken) ==
    <<<<"X-Amz-Algorithm">>, <<"X-Amz-Credential">>>>
    \o Opt(copy = "cli.py", "X-Amz-ChannelARN")
    \o <<<<"X-Amz-Date">>, <<"X-Amz-Expires">>>>
    \o Opt(hasToken, "X-Amz-Security-Token")
    \o <<<<"X-Amz-SignedHeaders">>, <<"X-Amz-Signature">>>>

ExpiresIs300(querystring) ==
    \E i \in 1..Len(QueryParams(querystring)) :
        QueryParams(querystring)[i] = <<"X-Amz-Expires", "=", "300">>

SignatureCoversTheRest(url) ==
    url.canonical_querystring = HashedQuery(url) \o <<"&", "X-Amz-Signature", "=">>

SendsOver == RunSends(calls) - (IF pc \in {"signaling.send(offer)", "signaling.send(answer)"}
                                   /\ (ret = Pending \/ ret.kind = "raise") THEN 1 ELSE 0)

\* C23: on the TCP and unix-socket carriers everything on the wire is a whole
\* frame, an encoded message with its newline, also after an interrupt at any
\* await; a step writes at most one frame, after the ones written before; and
\* while the run has not ended there is one frame for each send() that returned.
C23_WholeFramesOnly ==
    /\ [](signaling.cls \in StreamCarriers =>
            /\ \A i \in 1..Len(signaling.wire) :
                  /\ signaling.wire[i].end = "\n"
                  /\ signaling.wire[i].text \in {OfferText, AnswerText, ByeText}
            /\ (ending = "none" /\ pc \in RunAwaits) => Len(signaling.wire) = SendsOver)
    /\ [][(signaling.cls \in StreamCarriers /\ signaling'.wire # signaling.wire) =>
            /\ Len(signaling'.wire) = Len(signaling.wire) + 1
            /\ SubSeq(signaling'.wire, 1, Len(signaling.wire)) = signaling.wire]_vars

C23_Witness ==
    /\ signaling.cls \in StreamCarriers /\ pc = "exit"
    /\ ending = "KeyboardInterrupt"
    /\ Len(calls) > 3 /\ calls[Len(calls) - 3] = "signaling.send(offer)"
    /\ signaling.wire = <<>>

\* The calls run() makes for an offer, in their order.
OfferHandling ==
    <<"pc.setRemoteDescription", "recorder.start", "pc.createAnswer",
      "pc.setLocalDescription(answer)", "signaling.send(answer)">>

\* C24: every offer that is dispatched, whatever the role and whatever came
\* before it (the local offer of an offerer, an earlier offer or answer), is
\* followed by setRemoteDescription, recorder.start, createAnswer,
\* setLocalDescription(answer) and send(answer), in this order, as far as the
\* run gets; and whenever the loop is back at receive() there are as many
\* answers sent, and as many answer frames written, as offers received.
C24_EveryOfferAnswered ==
    /\ \A i \in 1..Len(calls) :
          (calls[i] = "<- offer" /\ i < Len(calls) /\ calls[i + 1] # "recorder.stop") =>
              \A k \in 1..5 :
                  i + k <= Len(calls) =>
                      \/ calls[i + k] = OfferHandling[k]
                      \/ \E j \in (i + 1)..(i + k) : calls[j] = "recorder.stop"
    /\ (pc = "signaling.receive" /\ ending = "none") =>
          /\ Count(calls, "signaling.send(answer)") = Count(calls, "<- offer")
          /\ Count(signaling.wire, Frame(AnswerText)) = Count(calls, "<- offer")

C24_Witness ==
    /\ role = "offer" /\ pc = "signaling.receive" /\ ending = "none"
    /\ Len(calls) > 6 /\ calls[6] = "<- offer"
    /\ Count(calls, "<- offer") = 2
    /\ Count(signaling.wire, Frame(AnswerText)) = 2

\* The awaits of run() between an offer's receive() and the send of its answer.
AnswerAwaits ==
    {"pc.setRemoteDescription", "recorder.start", "pc.createAnswer",
     "pc.setLocalDescription(answer)"}

C28_FailedSeenOnlyAfterReceive ==
    /\ [][(connectionState' = "failed" /\ connectionState # "failed") =>
            /\ pc' = pc /\ calls' = calls /\ ending' = ending
            /\ signaling' = signaling /\ ret' = ret]_vars
    /\ [][(/\ connectionState = "failed" /\ pc = "signaling.receive" /\ ret = Pending
           /\ ending' # "KeyboardInterrupt") =>
              pc' = pc /\ calls' = calls]_vars
    /\ [][(/\ connectionState = "failed" /\ pc = "signaling.receive"
           /\ ret # Pending /\ ret.kind = "return"
           /\ calls' # calls /\ ending' # "KeyboardInterrupt") =>
              /\ ending' = "returned"
              /\ calls' = calls \o <<Returned(ret.value), "recorder.stop">>
              /\ routing' = routing]_vars
    /\ [][(ending' = "returned" /\ ending # "returned") =>
            /\ pc = "signaling.receive" /\ ret # Pending /\ ret.kind = "return"
            /\ connectionState = "failed" \/ ret.value = BYE]_vars

\* The engine failed after the first offer was taken; the second offer that
\* then arrived ended the loop and was given to no setRemoteDescription.
C28_Witness ==
    /\ connectionState = "failed" /\ ending = "returned"
    /\ pc = "recorder.stop"
    /\ Len(calls) >= 2
    /\ SubSeq(calls, Len(calls) - 1, Len(calls)) = <<"<- offer", "recorder.stop">>
    /\ Count(calls, "pc.setRemoteDescription") = 1

\* The calls of the finally block, in the order the code makes them.
Shutdown == <<"recorder.stop", "signaling.close", "pc.close">>
ShutdownMade ==
    IF Has(calls, "recorder.stop")
    THEN SubSeq(calls, FirstIndex(calls, "recorder.stop", 1), Len(calls))
    ELSE <<>>

\* C29: however run() ends, the finally block starts with recorder.stop();
\* the calls made from there on are recorder.stop, signaling.close, pc.close in
\* this order, each made only when the one before it has returned without an
\* exception, and an exception in one of them ends the block with the later
\* ones never called.
C29_ShutdownInOrder ==
    /\ [](/\ Len(ShutdownMade) <= 3
          /\ ShutdownMade = SubSeq(Shutdown, 1, Len(ShutdownMade))
          /\ (LoopExited /\ Has(calls, "signaling.connect")) => Has(calls, "recorder.stop")
          /\ cleanupError # None =>
                /\ pc = "exit" /\ ~Has(calls, "pc.close")
                /\ connectionState # "closed"
          /\ (pc = "exit" /\ cleanupError = None /\ Has(calls, "recorder.stop")) =>
                ShutdownMade = Shutdown)
    /\ [][(pc \in RunAwaits /\ (ending' # ending \/ pc' \notin RunAwaits)) =>
             /\ pc' = "recorder.stop"
             /\ calls'[Len(calls')] = "recorder.stop" /\ ending' # "none"]_vars
    /\ [][(pc = "signaling.close" /\ pc' # pc) =>
             /\ ret # Pending
             /\ IF ret.kind = "return" THEN pc' = "pc.close" /\ cleanupError' = None
                ELSE pc' = "exit" /\ calls' = calls /\ cleanupError' = Some(ret.exc)]_vars
    /\ [][(pc = "recorder.stop" /\ pc' # pc) =>
             \/ pc' = "signaling.close" /\ cleanupError' = None
             \/ pc' = "exit" /\ calls' = calls /\ cleanupError' # None]_vars

\* close() of the websocket carrier raised in the finally block: the engine
\* was never closed.
C29_Witness ==
    /\ pc = "exit" /\ ending = "returned"
    /\ cleanupError = Some("AssertionError")
    /\ ShutdownMade = <<"recorder.stop", "signaling.close">>
    /\ connectionState = "connected"

\* C30: when close() of a TCP or unix-socket carrier is over it has returned
\* and the carrier holds no reader, no writer and no server, whatever it held
\* before; a send() called next starts a listener anew and a receive() called
\* next dials anew.
C30_CloseResetsTheStreamCarrier ==
    /\ []((signaling.cls \in StreamCarriers /\ CallOver("close")) =>
            /\ LastCall.kind = "return"
            /\ ~signaling.reader /\ ~signaling.writer /\ ~signaling.server
            /\ signaling.await = "idle")
    /\ [][(/\ signaling.cls \in StreamCarriers /\ CallOver("close")
           /\ drvCall' # NoCall) =>
              /\ drvCall'.method = "send" =>
                    /\ signaling'.listens = signaling.listens + 1
                    /\ signaling'.await = "start_server" /\ ret' = Pending
              /\ drvCall'.method = "receive" =>
                    /\ signaling'.dials = signaling.dials + 1
                    /\ signaling'.await = "open_connection" /\ ret' = Pending]_vars

\* A carrier that was connected as server was closed, and the receive() called
\* after that dials out.
C30_Witness ==
    /\ signaling.cls \in StreamCarriers
    /\ Len(drvLog) = 2
    /\ drvLog[1].method = "send" /\ drvLog[1].kind = "return"
    /\ drvLog[2].method = "close" /\ drvLog[2].connected
    /\ {"writer", "server"} \subseteq signaling.released
    /\ drvCall # NoCall /\ drvCall.method = "receive"
    /\ signaling.listens = 1 /\ signaling.dials = 1

====
